---- MODULE Spec2Model ----
(***************************************************************************)
(* A model of the storybook pipeline of story_generator.py (parsing the    *)
(* generated text, segmenting the narrative into pages, generating and     *)
(* compositing one image per page into an output directory) and of the     *)
(* storybook catalog of app.py (storybooks.json behind a memoizing cache). *)
(*                                                                         *)
(* Strings are sequences of one-character strings.  The raw text handed to *)
(* extract_story_elements is a sequence of tokens: the characters "{" and  *)
(* "}", a noise character "x", and one token per "key": value member of a  *)
(* JSON object (k is the key, v the value as a sequence of strings).       *)
(***************************************************************************)
EXTENDS Integers, Sequences, FiniteSets, TLC

VARIABLES
    \* ---- pure-function harness (SpecFn)
    fn,         \* which function the harness applies
    arg,        \* its input
    ret,        \* its result, [called |-> FALSE] before the call
    \* ---- process_text, one call per thread (Spec)
    frame,      \* per thread: pc and the locals of process_text
    cwd,        \* files image_new_<i>.png in the working directory
    outfiles,   \* files inside the directories under static/storybooks
    dirs,       \* directories created under static/storybooks
    now,        \* int(time.time())
    \* ---- storybook catalog (SpecCatalog)
    file,       \* the "storybooks" list held in storybooks.json
    cache,      \* the memoized result of load_storybooks
    clock,      \* seconds, the cache's time base
    saved       \* history: every entry passed to save_storybook, in order

fnvars  == <<fn, arg, ret>>
ptvars  == <<frame, cwd, outfiles, dirs, now>>
catvars == <<file, cache, clock, saved>>
vars    == <<fn, arg, ret, frame, cwd, outfiles, dirs, now, file, cache, clock, saved>>

----------------------------------------------------------------------------
\* Bounds of the model
MaxNoise     == 2   \* length of the text before / after the payload
MaxTitleLen  == 4   \* length of a raw title given to the sanitizer
MaxSentences == 7   \* sentences joined into a narrative
MaxPrompts   == 2   \* entries of imagePrompts
NumThreads   == 2   \* concurrent process_text calls
MaxNow       == 1   \* seconds that pass while the calls run
MaxSaves     == 3   \* save_storybook calls
MaxClock     == 600 \* seconds the catalog is observed for

----------------------------------------------------------------------------
\* Generic helpers

Min(a, b) == IF a < b THEN a ELSE b
Max(a, b) == IF a > b THEN a ELSE b

\* all sequences over S of length 0..n
RECURSIVE SeqsUpTo(_, _)
SeqsUpTo(S, n) ==
    IF n = 0 THEN {<<>>}
    ELSE LET shorter == SeqsUpTo(S, n - 1)
         IN  shorter \cup {Append(s, x) : s \in {t \in shorter : Len(t) = n - 1}, x \in S}

\* Python s[a:b] for a, b that may be negative or past the end
PySlice(s, a, b) ==
    LET n  == Len(s)
        lo == IF a < 0 THEN Max(a + n, 0) ELSE Min(a, n)
        hi == IF b < 0 THEN Max(b + n, 0) ELSE Min(b, n)
    IN  IF lo >= hi THEN <<>> ELSE SubSeq(s, lo + 1, hi)

\* str.find(c): 0-based index of the first occurrence, -1 when absent
Find(s, c) ==
    IF \E j \in 1..Len(s) : s[j] = c
    THEN (CHOOSE j \in 1..Len(s) : s[j] = c /\ \A m \in 1..(j - 1) : s[m] # c) - 1
    ELSE -1

\* str.rfind(c): 0-based index of the last occurrence, -1 when absent
RFind(s, c) ==
    IF \E j \in 1..Len(s) : s[j] = c
    THEN (CHOOSE j \in 1..Len(s) : s[j] = c /\ \A m \in (j + 1)..Len(s) : s[m] # c) - 1
    ELSE -1

----------------------------------------------------------------------------
\* extract_story_elements

Tok(k, v) == [k |-> k, v |-> v]
LB == Tok("{", <<>>)
RB == Tok("}", <<>>)
NZ == Tok("x", <<>>)
FieldKeys == {"title", "story", "moral", "imagePrompts"}

\* json.loads restricted to the token language: the text is a JSON value iff
\* it is "{", then members only, then "}".  The empty string, noise and
\* stray or nested bare braces raise JSONDecodeError.
JsonLoads(s) ==
    IF /\ Len(s) >= 2
       /\ s[1] = LB
       /\ s[Len(s)] = RB
       /\ \A j \in 2..(Len(s) - 1) : s[j].k \in FieldKeys
    THEN [ok |-> TRUE, members |-> SubSeq(s, 2, Len(s) - 1)]
    ELSE [ok |-> FALSE, members |-> <<>>]

HasKey(members, key) == \E j \in 1..Len(members) : members[j].k = key

\* story_data[key]: the last member with that key
Lookup(members, key) ==
    members[CHOOSE j \in 1..Len(members) :
                /\ members[j].k = key
                /\ \A m \in (j + 1)..Len(members) : members[m].k # key].v

Raised(err) ==
    [err |-> err, title |-> <<>>, story |-> <<>>, moral |-> <<>>, imagePrompts |-> <<>>]

JsonStartLast(full_text) == RFind(full_text, LB)

\* full_text.find('{')
JsonStart(full_text) == Find(full_text, LB)

\* full_text.rfind('}') + 1
JsonEnd(full_text) == RFind(full_text, RB) + 1

ExtractFallback(full_text, story_data) ==
    IF story_data.ok /\ \A key \in FieldKeys : HasKey(story_data.members, key)
    THEN [err |-> "none",
          title        |-> Lookup(story_data.members, "title"),
          story        |-> Lookup(story_data.members, "story"),
          moral        |-> Lookup(story_data.members, "moral"),
          imagePrompts |-> Lookup(story_data.members, "imagePrompts")]
    ELSE [err |-> "none", title |-> <<"G">>, story |-> <<"a">>, moral |-> <<>>,
          imagePrompts |-> <<"p1">>]

ExtractResult(full_text, story_data) ==
    IF ~story_data.ok THEN Raised("JSONDecodeError")
    ELSE IF \E key \in FieldKeys : ~HasKey(story_data.members, key) THEN Raised("KeyError")
    ELSE [err |-> "none",
          title        |-> Lookup(story_data.members, "title"),
          story        |-> Lookup(story_data.members, "story"),
          moral        |-> Lookup(story_data.members, "moral"),
          imagePrompts |-> Lookup(story_data.members, "imagePrompts")]

extract_story_elements(full_text) ==
    LET json_start  == JsonStart(full_text)
        json_end    == JsonEnd(full_text)
        json_string == PySlice(full_text, json_start, json_end)
        story_data  == JsonLoads(json_string)
    IN  ExtractResult(full_text, story_data)

----------------------------------------------------------------------------
\* title sanitizing: re.sub(r'[?;:%#@*&\^$!<>,\\/]+', ' ', s)

SpecialChars ==
    {"?", ";", ":", "%", "#", "@", "*", "&", "^", "$", "!", "<", ">", ",", "\\", "/"}

\* end of the run of special characters that starts at position j
RECURSIVE RunEnd(_, _)
RunEnd(s, j) ==
    IF j < Len(s) /\ s[j + 1] \in SpecialChars THEN RunEnd(s, j + 1) ELSE j

RunEndSingle(s, j) == j

\* what one match of the pattern at position j consumes: the '+' makes it
\* the whole run
MatchEnd(s, j) == RunEnd(s, j)

RECURSIVE ReSubFrom(_, _)
ReSubFrom(s, j) ==
    IF j > Len(s) THEN <<>>
    ELSE IF s[j] \in SpecialChars
         THEN <<" ">> \o ReSubFrom(s, MatchEnd(s, j) + 1)
         ELSE <<s[j]>> \o ReSubFrom(s, j + 1)

replace_special_chars(s) == ReSubFrom(s, 1)

\* title.replace(' ', '_')
ReplaceSpaces(title) == [j \in 1..Len(title) |-> IF title[j] = " " THEN "_" ELSE title[j]]

----------------------------------------------------------------------------
\* segmentation: story.split('. ') and the chunking loop

\* 1-based position of the first ". " in s, 0 when there is none
FirstSep(s) ==
    IF \E j \in 1..(Len(s) - 1) : s[j] = "." /\ s[j + 1] = " "
    THEN CHOOSE j \in 1..(Len(s) - 1) :
            /\ s[j] = "." /\ s[j + 1] = " "
            /\ \A m \in 1..(j - 1) : ~(s[m] = "." /\ s[m + 1] = " ")
    ELSE 0

RECURSIVE Split(_)
Split(s) ==
    LET p == FirstSep(s)
    IN  IF p = 0 THEN <<s>>
        ELSE <<SubSeq(s, 1, p - 1)>> \o Split(SubSeq(s, p + 2, Len(s)))

RECURSIVE Join(_)
Join(parts) ==
    IF Len(parts) = 0 THEN <<>>
    ELSE IF Len(parts) = 1 THEN parts[1]
    ELSE parts[1] \o <<".", " ">> \o Join(Tail(parts))

\* the f-string of lines 157-158: the chunk as context plus the paired prompt
NewPrompt(combined, prompt) == [context |-> combined, prompt |-> prompt]

PromptWrap(image_prompts, page) == image_prompts[(page % Len(image_prompts)) + 1]

\* image_prompts[i // 3] if i // 3 < len(image_prompts) else image_prompts[-1],
\* for a non-empty list
PromptFor(image_prompts, page) ==
    IF page < Len(image_prompts) THEN image_prompts[page + 1]
    ELSE image_prompts[Len(image_prompts)]

ChunkPair(sentences, i) == PySlice(sentences, i, i + 2)

\* sentences[i:i+3]
Chunk(sentences, i) == PySlice(sentences, i, i + 3)

SegEmpty ==
    [err |-> "none", chunks |-> <<>>, combined_sentences |-> <<>>, image_prompt_new |-> <<>>]

\* for i in range(0, len(sentences), 3): ...
RECURSIVE SegLoop(_, _, _, _)
SegLoop(sentences, image_prompts, i, acc) ==
    IF i >= Len(sentences) THEN acc
    ELSE LET chunk    == Chunk(sentences, i)
             combined == Join(chunk)
         IN  IF i \div 3 >= Len(image_prompts) /\ Len(image_prompts) = 0
             THEN \* image_prompts[-1] on an empty list
                  [acc EXCEPT !.err = "IndexError",
                              !.chunks = Append(@, chunk),
                              !.combined_sentences = Append(@, combined)]
             ELSE SegLoop(sentences, image_prompts, i + 3,
                     [acc EXCEPT
                        !.chunks = Append(@, chunk),
                        !.combined_sentences = Append(@, combined),
                        !.image_prompt_new =
                            Append(@, NewPrompt(combined, PromptFor(image_prompts, i \div 3)))])

Segment(story, image_prompts) == SegLoop(Split(story), image_prompts, 0, SegEmpty)

----------------------------------------------------------------------------
\* Pure-function harness: Init draws an input, one action applies the function

Noise      == SeqsUpTo({LB, RB, NZ}, MaxNoise)
TitleChars == {"a", " ", "!", "/", "'"}
RawTitles  == SeqsUpTo(TitleChars, MaxTitleLen)
Sentences  == {<<>>, <<"a">>, <<"a", ".">>}
Stories    == {Join(ss) : ss \in SeqsUpTo(Sentences, MaxSentences) \ {<<>>}}
PromptLists == SeqsUpTo({"p1", "p2"}, MaxPrompts)

Payload(title, story, moral, prompts) ==
    <<LB, Tok("title", title), Tok("story", story), Tok("moral", moral),
      Tok("imagePrompts", prompts), RB>>

NotCalled == [called |-> FALSE]

ExtractArgs ==
    [prefix : Noise, suffix : Noise,
     title : {<<"a">>, <<"b", "!">>}, story : {<<>>, <<"a", ".", " ", "a">>},
     moral : {<<"m">>}, imagePrompts : {<<>>, <<"p1", "p2">>}]

InitIdlePt ==
    /\ frame = [t \in 1..NumThreads |-> [pc |-> "idle"]]
    /\ cwd = {} /\ outfiles = {} /\ dirs = {} /\ now = 0

InitIdleCat ==
    /\ file = <<>> /\ cache = [present |-> FALSE, val |-> <<>>, expires |-> 0]
    /\ clock = 0 /\ saved = <<>>

InitIdleFn ==
    /\ fn = "idle" /\ arg = <<>> /\ ret = NotCalled

InitFn ==
    /\ \/ fn = "extract"  /\ arg \in ExtractArgs
       \/ fn = "sanitize" /\ arg \in [title_raw : RawTitles]
       \/ fn = "segment"  /\ arg \in [story : Stories, image_prompts : PromptLists]
    /\ ret = NotCalled
    /\ InitIdlePt
    /\ InitIdleCat

FullText(a) == a.prefix \o Payload(a.title, a.story, a.moral, a.imagePrompts) \o a.suffix

ApplyExtract ==
    /\ fn = "extract" /\ ~ret.called
    /\ ret' = [called |-> TRUE, val |-> extract_story_elements(FullText(arg))]
    /\ UNCHANGED <<fn, arg, ptvars, catvars>>

ApplySanitize ==
    /\ fn = "sanitize" /\ ~ret.called
    /\ ret' = [called |-> TRUE, val |-> replace_special_chars(arg.title_raw)]
    /\ UNCHANGED <<fn, arg, ptvars, catvars>>

ApplySegment ==
    /\ fn = "segment" /\ ~ret.called
    /\ ret' = [called |-> TRUE, val |-> Segment(arg.story, arg.image_prompts)]
    /\ UNCHANGED <<fn, arg, ptvars, catvars>>

NextFn == ApplyExtract \/ ApplySanitize \/ ApplySegment

SpecFn == InitFn /\ [][NextFn]_vars

----------------------------------------------------------------------------
\* process_text, one call per thread, the calls interleaved step by step

Threads == 1..NumThreads
NoDir   == [name |-> <<"-">>, ts |-> -1]

\* the raw texts the calls are given
StoryTwoPages == <<"a", ".", " ", "a", ".", " ", "a", ".", " ", "a">>
Texts ==
    { <<NZ, NZ>>,
      <<NZ>> \o Payload(<<"a">>, StoryTwoPages, <<"m">>, <<"p1">>),
      Payload(<<"a">>, <<>>, <<"m">>, <<"p1">>),
      Payload(<<"b", "!">>, <<"a">>, <<"m">>, <<"p1", "p2">>) \o <<NZ>>,
      Payload(<<"a">>, <<"a">>, <<"m">>, <<>>),
      <<LB, Tok("title", <<"a">>), RB>> }

NewFrame ==
    [pc |-> "start", text |-> <<>>, title |-> <<>>, story |-> <<>>,
     combined_sentences |-> <<>>, image_prompt_new |-> <<>>,
     image_generated_paths |-> <<>>, output_dir |-> NoDir,
     combined_story_with_images |-> <<>>, i |-> 0,
     gen_calls |-> 0, failed_at |-> "none"]

InitPt ==
    /\ frame = [t \in Threads |-> NewFrame]
    /\ cwd = {} /\ outfiles = {} /\ dirs = {} /\ now = 0
    /\ InitIdleFn
    /\ InitIdleCat

\* the except clause of lines 182-184: log and re-raise, nothing else
Raise(f, stage) == [f EXCEPT !.pc = "raised", !.failed_at = stage]

\* title.replace(' ', '_') + '_' + str(int(time.time()))
FolderName(title, t) == [name |-> ReplaceSpaces(title), ts |-> t]

\* generate_image: the body is not part of the sources; it either fails or
\* saves an image of its own and returns the path
generate_image(self, title, image_index, ok) ==
    [ok |-> ok, path |-> [gen |-> self, idx |-> image_index]]

OutputImgPathFirst(output_dir, i) == [dir |-> output_dir, idx |-> 0]

\* os.path.join(output_dir, f"image_new_{i}.png")
OutputImgPath(output_dir, i) == [dir |-> output_dir, idx |-> i]

\* zip(combined_sentences, image_generated_paths) stops at the shorter one
ZipLen(a, b) == Min(Len(a), Len(b))

\* lines 143-163: parse, sanitize the title, segment, create the directory
Start(self) ==
    /\ frame[self].pc = "start"
    /\ \E text \in Texts :
        LET e      == extract_story_elements(text)
            title  == replace_special_chars(e.title)
            seg    == Segment(e.story, e.imagePrompts)
            folder == FolderName(title, now)
            f0     == [frame[self] EXCEPT !.text = text]
        IN  IF e.err # "none"
            THEN /\ frame' = [frame EXCEPT ![self] = Raise(f0, "parse")]
                 /\ UNCHANGED dirs
            ELSE IF seg.err # "none"
            THEN /\ frame' = [frame EXCEPT ![self] =
                        Raise([f0 EXCEPT !.title = title, !.story = e.story], "segment")]
                 /\ UNCHANGED dirs
            ELSE /\ frame' = [frame EXCEPT ![self] =
                        [f0 EXCEPT !.pc = "gen", !.title = title, !.story = e.story,
                                   !.combined_sentences = seg.combined_sentences,
                                   !.image_prompt_new = seg.image_prompt_new,
                                   !.output_dir = folder, !.i = 0]]
                 /\ dirs' = dirs \cup {folder}
    /\ UNCHANGED <<cwd, outfiles, now, fnvars, catvars>>

\* lines 166-168: one iteration of the generation loop
GenerateImage(self) ==
    /\ frame[self].pc = "gen"
    /\ \E ok \in BOOLEAN :
        LET f  == frame[self]
            r  == generate_image(self, f.title, f.i, ok)
            f1 == [f EXCEPT !.gen_calls = @ + 1]
        IN  IF ~r.ok
            THEN frame' = [frame EXCEPT ![self] = Raise(f1, "generate")]
            ELSE frame' = [frame EXCEPT ![self] =
                    [f1 EXCEPT !.image_generated_paths = Append(@, r.path),
                               !.i  = IF f.i + 1 < Len(f.image_prompt_new) THEN f.i + 1 ELSE 0,
                               !.pc = IF f.i + 1 < Len(f.image_prompt_new) THEN "gen" ELSE "comp"]]
    /\ UNCHANGED <<cwd, outfiles, dirs, now, fnvars, catvars>>

\* line 174: add_text_to_image(image_path, text, f"image_new_{i}.png") draws
\* the page text and saves the result in the working directory, or raises
AddTextToImage(self) ==
    /\ frame[self].pc = "comp"
    /\ \E ok \in BOOLEAN :
        LET f == frame[self]
        IN  IF ~ok
            THEN /\ frame' = [frame EXCEPT ![self] = Raise(f, "composite")]
                 /\ UNCHANGED cwd
            ELSE /\ cwd' = {g \in cwd : g.idx # f.i}
                            \cup {[idx |-> f.i, text |-> f.combined_sentences[f.i + 1], by |-> self]}
                 /\ frame' = [frame EXCEPT ![self].pc = "move"]
    /\ UNCHANGED <<outfiles, dirs, now, fnvars, catvars>>

\* lines 175-177: shutil.move of image_new_<i>.png into the output directory
\* (FileNotFoundError when the file is gone), then the next iteration or the
\* return of line 180
MoveImage(self) ==
    /\ frame[self].pc = "move"
    /\ LET f    == frame[self]
           dst  == OutputImgPath(f.output_dir, f.i)
           more == f.i + 1 < ZipLen(f.combined_sentences, f.image_generated_paths)
       IN  IF \E g \in cwd : g.idx = f.i
           THEN LET g == CHOOSE g \in cwd : g.idx = f.i
                IN  /\ cwd' = cwd \ {g}
                    /\ outfiles' = {h \in outfiles : ~(h.dir = dst.dir /\ h.idx = dst.idx)}
                           \cup {[dir |-> dst.dir, idx |-> dst.idx, text |-> g.text,
                                  by |-> g.by, mv |-> self]}
                    /\ frame' = [frame EXCEPT ![self] =
                           [f EXCEPT !.combined_story_with_images = Append(@, dst),
                                     !.i  = IF more THEN f.i + 1 ELSE f.i,
                                     !.pc = IF more THEN "comp" ELSE "done"]]
           ELSE /\ frame' = [frame EXCEPT ![self] = Raise(f, "move")]
                /\ UNCHANGED <<cwd, outfiles>>
    /\ UNCHANGED <<dirs, now, fnvars, catvars>>

\* a second passes
Tick ==
    /\ now < MaxNow
    /\ now' = now + 1
    /\ UNCHANGED <<frame, cwd, outfiles, dirs, fnvars, catvars>>

Next ==
    \/ \E self \in Threads : Start(self)
    \/ \E self \in Threads : GenerateImage(self)
    \/ \E self \in Threads : AddTextToImage(self)
    \/ \E self \in Threads : MoveImage(self)
    \/ Tick

Init == InitPt

Spec == Init /\ [][Next]_vars

----------------------------------------------------------------------------
\* Claims about the pure functions, checked under SpecFn

RECURSIVE Flatten(_)
Flatten(ss) == IF Len(ss) = 0 THEN <<>> ELSE ss[1] \o Flatten(Tail(ss))

HasTok(s, t) == \E j \in 1..Len(s) : s[j] = t

SegmentCalled == fn = "segment" /\ ret.called
SegmentDone   == SegmentCalled /\ ret.val.err = "none"

\* C4: for a narrative that story.split('. ') cuts into S >= 1 sentences, the
\* segmentation loop (when it runs to its end) yields exactly ceil(S/3)
\* chunks of 1..3 sentences each, every chunk is joined with ". " into its
\* page text, and the chunks concatenated in page order are the sentences in
\* their original order, none dropped or duplicated.
C4_ChunksPartitionSentences ==
    SegmentDone =>
        LET sentences == Split(arg.story)
            S         == Len(sentences)
            chunks    == ret.val.chunks
        IN  /\ S >= 1
            /\ Len(chunks) = (S + 2) \div 3
            /\ \A k \in 1..Len(chunks) : Len(chunks[k]) >= 1 /\ Len(chunks[k]) <= 3
            /\ Flatten(chunks) = sentences
            /\ Len(ret.val.combined_sentences) = Len(chunks)
            /\ \A k \in 1..Len(chunks) : ret.val.combined_sentences[k] = Join(chunks[k])

\* a narrative of 7 sentences was cut into 3 chunks, the last one short
C4_Witness ==
    /\ SegmentDone
    /\ Len(Split(arg.story)) = 7
    /\ Len(ret.val.chunks) = 3
    /\ Len(ret.val.chunks[3]) = 1

\* the prompt the claim pairs with page k (1-based here, page index k - 1)
PairedAsClaimed(k) ==
    IF k - 1 < Len(arg.image_prompts) THEN arg.image_prompts[k]
    ELSE arg.image_prompts[Len(arg.image_prompts)]

PromptsAsClaimed ==
    /\ ret.val.err = "none"
    /\ Len(ret.val.image_prompt_new) = (Len(Split(arg.story)) + 2) \div 3
    /\ \A k \in 1..Len(ret.val.image_prompt_new) :
          /\ ret.val.image_prompt_new[k].prompt = PairedAsClaimed(k)
          /\ ret.val.image_prompt_new[k].context = ret.val.combined_sentences[k]

\* C5 as stated: for every imagePrompts list, also one shorter than the page
\* count, segmentation completes without an error and page i is paired with
\* imagePrompts[i], or with the final entry when i is past the end.
C5_Original == SegmentCalled => PromptsAsClaimed

\* C5 amended: the same, for a list of imagePrompts that is not empty.
C5_PromptPairing == (SegmentCalled /\ Len(arg.image_prompts) >= 1) => PromptsAsClaimed

\* three pages, two distinct prompts: the third page reuses the second prompt
C5_Witness ==
    /\ SegmentDone
    /\ arg.image_prompts = <<"p1", "p2">>
    /\ Len(ret.val.image_prompt_new) = 3
    /\ ret.val.image_prompt_new[3].prompt = "p2"

ExtractCalled == fn = "extract" /\ ret.called

PayloadReturned ==
    ret.val = [err |-> "none", title |-> arg.title, story |-> arg.story,
               moral |-> arg.moral, imagePrompts |-> arg.imagePrompts]

\* C8 as stated: whatever text surrounds a well-formed payload, braces
\* included, extract_story_elements returns the payload's four field values.
C8_Original == ExtractCalled => PayloadReturned

\* C8 amended: the payload's four field values are returned whenever the
\* text before the payload holds no "{" and the text after it holds no "}".
C8_PayloadExtracted ==
    (ExtractCalled /\ ~HasTok(arg.prefix, LB) /\ ~HasTok(arg.suffix, RB)) => PayloadReturned

\* noise on both sides, a "}" before the payload and a "{" after it
C8_Witness ==
    /\ ExtractCalled /\ PayloadReturned
    /\ arg.prefix = <<NZ, RB>> /\ arg.suffix = <<LB, NZ>>

SanitizeCalled == fn = "sanitize" /\ ret.called

CharAsClaimed(c) == IF c \in SpecialChars THEN " " ELSE c

\* C9 as stated: every listed character becomes exactly one space, all other
\* characters stay, so the length is kept.
C9_Original ==
    SanitizeCalled =>
        /\ Len(ret.val) = Len(arg.title_raw)
        /\ \A j \in 1..Len(ret.val) : ret.val[j] = CharAsClaimed(arg.title_raw[j])

\* positions of the raw title that survive: every unlisted character and the
\* first character of every run of listed characters
RunHeads(raw) ==
    {j \in 1..Len(raw) : raw[j] \notin SpecialChars \/ j = 1 \/ raw[j - 1] \notin SpecialChars}

NthOf(S, k) == CHOOSE j \in S : Cardinality({m \in S : m < j}) = k - 1

\* C9 amended: every maximal run of listed characters becomes exactly one
\* space and every other character is left unchanged; the result holds none
\* of the listed characters and is never longer than the raw title.
C9_RunsCollapsed ==
    SanitizeCalled =>
        LET raw   == arg.title_raw
            heads == RunHeads(raw)
        IN  /\ Len(ret.val) = Cardinality(heads)
            /\ \A k \in 1..Len(ret.val) : ret.val[k] = CharAsClaimed(raw[NthOf(heads, k)])
            /\ \A k \in 1..Len(ret.val) : ret.val[k] \notin SpecialChars
            /\ Len(ret.val) <= Len(raw)

\* two adjacent listed characters collapsed into a single space
C9_Witness ==
    /\ SanitizeCalled
    /\ arg.title_raw = <<"a", "!", "/", "a">>
    /\ ret.val = <<"a", " ", "a">>

----------------------------------------------------------------------------
\* Claims about process_text, checked under Spec

Started(t)  == frame[t].pc # "start"
InFlight(t) == frame[t].pc \in {"gen", "comp", "move"}
NoBraces(s) == ~HasTok(s, LB) /\ ~HasTok(s, RB)

\* files of the call's output directory that the call itself moved there
PagesLeftBy(t) == {h \in outfiles : h.dir = frame[t].output_dir /\ h.mv = t}

\* C1: when image generation or compositing fails for a page, process_text
\* has failed as a whole and none of the page images of that run is left in
\* the output directory it created.
C1_NoPartialStorybook ==
    \A t \in Threads :
        (frame[t].pc = "raised" /\ frame[t].failed_at \in {"generate", "composite"})
            => PagesLeftBy(t) = {}

\* C2: two process_text calls in flight at the same time have distinct
\* output directories, and every page file in a call's output directory
\* was composited and moved by that call, from its own text for that page.
C2_DirectoryExclusivelyOwned ==
    /\ \A t1, t2 \in Threads :
          (t1 # t2 /\ InFlight(t1) /\ InFlight(t2))
              => frame[t1].output_dir # frame[t2].output_dir
    /\ \A t \in Threads : \A h \in outfiles :
          (frame[t].output_dir # NoDir /\ h.dir = frame[t].output_dir)
              => /\ h.by = t
                 /\ h.mv = t
                 /\ h.idx < Len(frame[t].combined_sentences)
                 /\ h.text = frame[t].combined_sentences[h.idx + 1]

\* C3: a call whose raw text holds neither "{" nor "}" fails in the parse,
\* never calls generate_image and creates no output directory; and a call
\* that did call generate_image was given a text holding both braces.
C3_NoImageWithoutParse ==
    /\ \A t \in Threads :
          (Started(t) /\ NoBraces(frame[t].text))
              => /\ frame[t].pc = "raised"
                 /\ frame[t].failed_at = "parse"
                 /\ frame[t].gen_calls = 0
                 /\ frame[t].output_dir = NoDir
    /\ \A t \in Threads :
          frame[t].gen_calls > 0
              => HasTok(frame[t].text, LB) /\ HasTok(frame[t].text, RB)
    /\ (\A t \in Threads : Started(t) => NoBraces(frame[t].text)) => dirs = {}

\* a call given a text without braces has run and raised
C3_Witness ==
    \E t \in Threads :
        /\ frame[t].text = <<NZ, NZ>>
        /\ frame[t].pc = "raised"
        /\ \E u \in Threads : frame[u].gen_calls > 0

\* C6: when process_text returns, the returned list has one entry per page
\* chunk and entry k is the file image_new_<k> of the call's own output
\* directory, so the entries are in strictly increasing page order.
C6_ResultInPageOrder ==
    \A t \in Threads :
        frame[t].pc = "done" =>
            LET res == frame[t].combined_story_with_images
            IN  /\ Len(res) = Len(frame[t].combined_sentences)
                /\ Len(res) = (Len(Split(frame[t].story)) + 2) \div 3
                /\ \A k \in 1..Len(res) :
                      res[k].dir = frame[t].output_dir /\ res[k].idx = k - 1
                /\ \A k \in 1..(Len(res) - 1) : res[k].idx < res[k + 1].idx

\* two calls returned, one of them with a two-page storybook
C6_Witness ==
    /\ \A t \in Threads : frame[t].pc = "done"
    /\ \E t \in Threads : Len(frame[t].combined_story_with_images) = 2

\* C7: a call whose parsed narrative is the empty string fails in the
\* segmentation: it has no page, none with empty text, and never calls
\* generate_image.
C7_EmptyNarrativeRejected ==
    \A t \in Threads :
        (Started(t) /\ HasTok(frame[t].text, Tok("story", <<>>)) /\ frame[t].failed_at # "parse")
            => /\ frame[t].pc = "raised"
               /\ frame[t].failed_at = "segment"
               /\ frame[t].gen_calls = 0
               /\ \A k \in 1..Len(frame[t].combined_sentences) :
                     frame[t].combined_sentences[k] # <<>>

----------------------------------------------------------------------------
\* The storybook catalog of app.py: storybooks.json behind
\* @cache.memoize(timeout=300)

CACHE_TIMEOUT == 300

\* the storybooks save_storybook is called with
Entries ==
    { [title |-> "a", path |-> FolderName(<<"a">>, 0)],
      [title |-> "b", path |-> FolderName(<<"b", " ">>, 0)] }

\* a memoized value is served while its expiry time lies in the future
CacheHit == cache.present /\ cache.expires > clock

\* load_storybooks(): the cached list when there is one, else the list read
\* from storybooks.json.  The cache hands out a copy of what it stores, so
\* the caller's append does not reach the cached value.
LoadStorybooks == IF CacheHit THEN cache.val ELSE file

\* the cache after a call of load_storybooks
CacheAfterLoad ==
    IF CacheHit THEN cache
    ELSE [present |-> TRUE, val |-> file, expires |-> clock + CACHE_TIMEOUT]

InitCat ==
    /\ file = <<>>
    /\ cache = [present |-> FALSE, val |-> <<>>, expires |-> 0]
    /\ clock = 0
    /\ saved = <<>>
    /\ InitIdleFn
    /\ InitIdlePt

\* GET /: the index page lists load_storybooks()
IndexView ==
    /\ cache' = CacheAfterLoad
    /\ UNCHANGED <<file, clock, saved, fnvars, ptvars>>

\* save_storybook: load, append, write the whole list back
SaveStorybook ==
    /\ Len(saved) < MaxSaves
    /\ \E entry \in Entries :
        LET storybooks == LoadStorybooks
        IN  /\ file' = Append(storybooks, entry)
            /\ saved' = Append(saved, entry)
    /\ cache' = CacheAfterLoad
    /\ UNCHANGED <<clock, fnvars, ptvars>>

\* time passes: half a cache timeout, or a whole one
Elapse ==
    /\ \E d \in {CACHE_TIMEOUT \div 2, CACHE_TIMEOUT} :
        /\ clock + d <= MaxClock
        /\ clock' = clock + d
    /\ UNCHANGED <<file, cache, saved, fnvars, ptvars>>

NextCat == IndexView \/ SaveStorybook \/ Elapse

SpecCatalog == InitCat /\ [][NextCat]_vars

\* C10: the catalog is append-only: storybooks.json always holds one entry
\* for every storybook saved so far, in save order.
C10_CatalogAppendOnly == file = saved

====
